---- MODULE Spec2Model ----
(***************************************************************************)
(* A model of linux-desktop/vision.py: one invocation of the command-line  *)
(* tool that sends a screenshot to a remote vision model and relays the    *)
(* located element (--find) or a description (--describe).                 *)
(*                                                                         *)
(* Texts (the remote reply, the image path) are sequences of atoms; an     *)
(* atom is a string standing for that very piece of text, so that          *)
(* str.strip, str.split, str.startswith, "\n".join, json.loads and         *)
(* Path.suffix are computed on the text the way the code computes them.    *)
(***************************************************************************)
EXTENDS Integers, Sequences, FiniteSets, TLC

VARIABLES
    pc,             \* position of the invocation in main()
    args,           \* argparse namespace: imageGiven, image, find, describe, json
    fileState,      \* what --image names on disk
    credential,     \* the state of ANTHROPIC_API_KEY
    stdout,         \* what was printed to standard output, in order
    stderr,         \* what was written to standard error, in order
    exitCode,       \* process exit status, NoExit while running
    clientBuilt,    \* anthropic.Anthropic() returned a client
    imageReads,     \* number of times the image file was opened
    requests,       \* the requests sent to the remote endpoint, in order
    reply,          \* response.content[0].text as received
    response_text,  \* find_element's response_text (reply, then decoded text)
    result,         \* the value find_element returned
    raised          \* the exception that ended the invocation, "" if none

vars == <<pc, args, fileState, credential, stdout, stderr, exitCode,
          clientBuilt, imageReads, requests, reply, response_text, result,
          raised>>

-----------------------------------------------------------------------------
(* Bounds of the model *)

\* longest reply, in atoms, of the fence-stripping specification
MaxReplyLen == 7
\* most members in a JSON object of a reply of the whole-program specification
MaxMembers == 2
\* longest image path, in atoms, of the media-type specification
MaxPathLen == 3

-----------------------------------------------------------------------------
(* Text atoms *)

\* a JSON text of one token, the empty object
EMPTYOBJ == "{}"
\* the three-backtick fence marker (a backtick cannot be written in a string)
FENCE == "<fence>"
NL == "\n"
SP == " "
LANG == "json"
LBRACE == "{"
RBRACE == "}"
COMMA == ","

Whitespace == {SP, NL}

\* all texts of at most n atoms over the alphabet A
TextsUpTo(A, n) == UNION {[1..k -> A] : k \in 0..n}

-----------------------------------------------------------------------------
(* str.strip, str.startswith, str.split, str.join *)

RECURSIVE LStrip(_)
LStrip(t) ==
    IF t # <<>> /\ Head(t) \in Whitespace THEN LStrip(Tail(t)) ELSE t

RECURSIVE RStrip(_)
RStrip(t) ==
    IF t # <<>> /\ t[Len(t)] \in Whitespace
    THEN RStrip(SubSeq(t, 1, Len(t) - 1))
    ELSE t

Strip(t) == RStrip(LStrip(t))

StartsWithFence(t) == t # <<>> /\ Head(t) = FENCE

\* t.split(sep): k separators give k + 1 parts, "" gives [""]
RECURSIVE SplitFrom(_, _, _)
SplitFrom(t, sep, cur) ==
    IF t = <<>> THEN <<cur>>
    ELSE IF Head(t) = sep THEN <<cur>> \o SplitFrom(Tail(t), sep, <<>>)
    ELSE SplitFrom(Tail(t), sep, Append(cur, Head(t)))

Split(t, sep) == SplitFrom(t, sep, <<>>)

RECURSIVE Join(_, _)
Join(lines, sep) ==
    IF lines = <<>> THEN <<>>
    ELSE IF Len(lines) = 1 THEN lines[1]
    ELSE lines[1] \o <<sep>> \o Join(Tail(lines), sep)

-----------------------------------------------------------------------------
(* find_element: the reply normalisation (lines 104-120) *)

\* the for loop of lines 112-119 with the closing-fence test removed
RECURSIVE FenceLoopNoClose(_, _, _)
FenceLoopNoClose(lines, inside, json_lines) ==
    IF lines = <<>> THEN json_lines
    ELSE IF StartsWithFence(Head(lines)) /\ ~inside
         THEN FenceLoopNoClose(Tail(lines), TRUE, json_lines)
    ELSE IF inside
         THEN FenceLoopNoClose(Tail(lines), inside, Append(json_lines, Head(lines)))
    ELSE FenceLoopNoClose(Tail(lines), inside, json_lines)

\* the for loop of lines 112-119
RECURSIVE FenceLoop(_, _, _)
FenceLoop(lines, inside, json_lines) ==
    IF lines = <<>> THEN json_lines
    ELSE IF StartsWithFence(Head(lines)) /\ ~inside
         THEN FenceLoop(Tail(lines), TRUE, json_lines)
    ELSE IF StartsWithFence(Head(lines)) /\ inside
         THEN json_lines
    ELSE IF inside
         THEN FenceLoop(Tail(lines), inside, Append(json_lines, Head(lines)))
    ELSE FenceLoop(Tail(lines), inside, json_lines)

\* lines 107-120: the body of the if, on the trimmed reply
StripFences(t) == Join(FenceLoop(Split(t, NL), FALSE, <<>>), NL)

\* lines 104-120: response_text as handed to json.loads
Normalise(text) ==
    LET t == Strip(text)
    IN  IF StartsWithFence(t) THEN StripFences(t) ELSE t

-----------------------------------------------------------------------------
(* json.loads (line 122) on a text of atoms *)

\* the members a reply's object can carry: atom, key, value (as JSON text)
MemberTable ==
    { [atom |-> "\"element\":\"OK button\"", key |-> "element", value |-> "\"OK button\""],
      [atom |-> "\"found\":true",  key |-> "found", value |-> "true"],
      [atom |-> "\"found\":false", key |-> "found", value |-> "false"],
      [atom |-> "\"x\":7",         key |-> "x",     value |-> "7"],
      [atom |-> "\"x\":NaN",       key |-> "x",     value |-> "NaN"] }

MemberAtoms == {m.atom : m \in MemberTable}
MemberOf(a) == CHOOSE m \in MemberTable : m.atom = a

\* the JSON texts of one token that are no object: atom, the Python type
\* json.loads gives it, and whether `"element" in value` holds of the value
ScalarTable ==
    { [atom |-> "7",                 py |-> "int",   hasElement |-> FALSE],
      [atom |-> "null",              py |-> "NoneType", hasElement |-> FALSE],
      [atom |-> "\"no such thing\"", py |-> "str",   hasElement |-> FALSE],
      [atom |-> "\"the element\"",   py |-> "str",   hasElement |-> TRUE],
      [atom |-> "[7]",               py |-> "list",  hasElement |-> FALSE] }

ScalarAtoms == {m.atom : m \in ScalarTable}
ScalarOf(a) == CHOOSE m \in ScalarTable : m.atom = a

\* the atoms that hold NaN, a literal json.loads accepts (as float nan)
\* although the JSON grammar has no such token
NonStandardLiterals == {"\"x\":NaN"}

NoResult == [tag |-> "none", obj |-> <<>>, val |-> ""]

\* the dict of a member list: a repeated key keeps its last value
ObjOf(ms) ==
    LET keys == {MemberOf(ms[i]).key : i \in 1..Len(ms)}
        last(k) == CHOOSE i \in 1..Len(ms) :
                       /\ MemberOf(ms[i]).key = k
                       /\ \A j \in (i + 1)..Len(ms) : MemberOf(ms[j]).key # k
    IN  [k \in keys |-> MemberOf(ms[last(k)]).value]

\* member (, member)* between the braces
RECURSIVE MemberList(_)
MemberList(toks) ==
    IF toks = <<>> THEN FALSE
    ELSE IF Head(toks) \notin MemberAtoms THEN FALSE
    ELSE IF Len(toks) = 1 THEN TRUE
    ELSE toks[2] = COMMA /\ MemberList(SubSeq(toks, 3, Len(toks)))

MembersIn(toks) == SelectSeq(toks, LAMBDA a : a \in MemberAtoms)

\* json.loads(text): whitespace between tokens is skipped; one value, and
\* nothing after it; ok = FALSE stands for JSONDecodeError
json_loads(text) ==
    LET toks == SelectSeq(text, LAMBDA a : a \notin Whitespace)
        n == Len(toks)
        inner == SubSeq(toks, 2, n - 1)
    IN  IF n = 1 /\ toks[1] \in ScalarAtoms
        THEN [ok |-> TRUE, value |-> [tag |-> ScalarOf(toks[1]).py, obj |-> <<>>, val |-> toks[1]]]
        ELSE IF n = 1 /\ toks[1] = EMPTYOBJ
        THEN [ok |-> TRUE, value |-> [tag |-> "dict", obj |-> <<>>, val |-> ""]]
        ELSE IF n >= 2 /\ toks[1] = LBRACE /\ toks[n] = RBRACE
                /\ (inner = <<>> \/ MemberList(inner))
        THEN [ok |-> TRUE, value |-> [tag |-> "dict", obj |-> ObjOf(MembersIn(inner)), val |-> ""]]
        ELSE [ok |-> FALSE, value |-> NoResult]

\* the text is JSON by the grammar: json.loads takes it and it holds none of
\* the literals outside the grammar
IsValidJSON(text) ==
    /\ json_loads(text).ok
    /\ \A i \in 1..Len(text) : text[i] \notin NonStandardLiterals

-----------------------------------------------------------------------------
(* find_element: the element field (lines 124-128) *)

Quote(d) == "\"" \o d \o "\""

\* lines 125-126 with the test dropped: element is always overwritten
EnsureElementOverwrite(value, element_description) ==
    IF value.tag = "dict"
    THEN [exc |-> "",
          value |-> [value EXCEPT !.obj =
                        [k \in DOMAIN value.obj \cup {"element"} |->
                            IF k = "element" THEN Quote(element_description)
                            ELSE value.obj[k]]]]
    ELSE [exc |-> "TypeError", value |-> NoResult]

\* lines 125-128 on what json.loads returned: a dict gets the field if it
\* lacks it; on a str or a list `in` is containment and the assignment
\* raises TypeError; on a number or None `in` itself raises TypeError
EnsureElement(value, element_description) ==
    IF value.tag = "dict"
    THEN IF "element" \in DOMAIN value.obj
         THEN [exc |-> "", value |-> value]
         ELSE [exc |-> "",
               value |-> [value EXCEPT !.obj =
                            [k \in DOMAIN value.obj \cup {"element"} |->
                                IF k = "element" THEN Quote(element_description)
                                ELSE value.obj[k]]]]
    ELSE IF value.tag \in {"str", "list"} /\ ScalarOf(value.val).hasElement
    THEN [exc |-> "", value |-> value]
    ELSE [exc |-> "TypeError", value |-> NoResult]

-----------------------------------------------------------------------------
(* get_media_type (lines 48-58) on a path of atoms *)

SLASH == "/"
DOT == "."

\* str.lower on the extension atoms of the model
Lower(a) == IF a = "JPG" THEN "jpg" ELSE a

\* pathlib: the components of a path; empty ones and "." are dropped
Components(path) ==
    SelectSeq(Split(path, SLASH), LAMBDA c : c # <<>> /\ c # <<DOT>>)

\* PurePath.name
Name(path) ==
    LET cs == Components(path)
    IN  IF cs = <<>> THEN <<>> ELSE cs[Len(cs)]

\* PurePath.suffix: from the last dot of the name, unless the name starts or
\* ends with that dot
Suffix(path) ==
    LET name == Name(path)
        dots == {i \in 1..Len(name) : name[i] = DOT}
        i == CHOOSE d \in dots : \A e \in dots : e <= d
    IN  IF dots = {} THEN <<>>
        ELSE IF 1 < i /\ i < Len(name) THEN SubSeq(name, i, Len(name))
        ELSE <<>>

\* line 50 without .lower()
ExtCaseSensitive(path) == Suffix(path)

\* line 50
Ext(path) == [i \in 1..Len(Suffix(path)) |-> Lower(Suffix(path)[i])]

\* lines 51-58
get_media_type(image_path) ==
    LET ext == Ext(image_path)
    IN  IF ext = <<DOT, "png">> THEN "image/png"
        ELSE IF ext = <<DOT, "jpg">> THEN "image/jpeg"
        ELSE IF ext = <<DOT, "jpeg">> THEN "image/jpeg"
        ELSE IF ext = <<DOT, "gif">> THEN "image/gif"
        ELSE IF ext = <<DOT, "webp">> THEN "image/webp"
        ELSE "image/png"

-----------------------------------------------------------------------------
(* Values shared by the specifications *)

NoExit == -1
NoText == <<"<unset>">>
None == "<None>"
NoArgs == [imageGiven |-> FALSE, image |-> <<>>, find |-> None,
           describe |-> FALSE, json |-> FALSE]

\* the truth value Python gives args.find
Truthy(s) == s # None /\ s # ""

-----------------------------------------------------------------------------
(* What main() prints *)

\* print(json.dumps(error)): one line, {flag: false, "error": msg}
ErrorLine(flag, msg) ==
    [kind |-> "error", flag |-> flag, msg |-> msg, val |-> NoResult]

\* print(f"...")
TextLine(msg) == [kind |-> "text", flag |-> "", msg |-> msg, val |-> NoResult]

\* print(json.dumps(result))
JsonLine(r) == [kind |-> "json", flag |-> "", msg |-> <<>>, val |-> r]

\* print(json.dumps(result, indent=2))
PrettyJson(r) == [kind |-> "pretty_json", flag |-> "", msg |-> <<>>, val |-> r]

\* lines 217-221: {"success": true, "description": description, "error": null}
DescribeJson(description) ==
    [kind |-> "describe_json", flag |-> "success", msg |-> description, val |-> NoResult]

\* line 223
DescribeText(description) ==
    [kind |-> "describe_text", flag |-> "", msg |-> description, val |-> NoResult]

ResultKinds == {"text", "json", "pretty_json", "describe_json", "describe_text"}

\* str(e) of the exception e
ExcText(e) == "<str(" \o e \o ")>"

\* the anthropic exception classes that derive from anthropic.APIError
IsAPIError(e) == e \in {"APIError", "AuthenticationError"}

\* lines 225-236 with the JSONDecodeError clause leaving out sys.exit(1)
HandlerExitForgotten(e) == IF e = "JSONDecodeError" THEN 0 ELSE 1

\* lines 228, 232, 236: sys.exit(1) in every except clause
HandlerExit(e) == 1

\* lines 225-236: the except clauses, in order
HandleException(e) ==
    IF IsAPIError(e)
    THEN ErrorLine("found", <<"Anthropic API error: ", ExcText(e)>>)
    ELSE IF e = "JSONDecodeError"
    THEN ErrorLine("found", <<"Failed to parse vision response as JSON: ", ExcText(e)>>)
    ELSE ErrorLine("found", <<"Unexpected error: ", ExcText(e)>>)

\* line 181
ImageNotFound(image) ==
    ErrorLine("success", <<"Image file not found: ">> \o image)

\* line 187
UsageError == ErrorLine("success", <<"Specify --find 'element' or --describe">>)

\* line 194
AuthErrorLine == ErrorLine("success", <<"ANTHROPIC_API_KEY not set or invalid">>)

\* dict.get
Get(r, key, default) == IF key \in DOMAIN r.obj THEN r.obj[key] ELSE default

\* the truth value of result.get("found", False)
Found(r) == Get(r, "found", "false") \notin {"false", "null", "0"}

\* lines 201-212: what is printed for result, or the exception raised;
\* .get on a str or a list raises AttributeError
Render(r, a) ==
    IF a.json THEN [exc |-> "", out |-> <<PrettyJson(r)>>]
    ELSE IF r.tag # "dict" THEN [exc |-> "AttributeError", out |-> <<>>]
    ELSE IF Found(r)
    THEN [exc |-> "",
          out |-> << TextLine(<<"Found: ", Get(r, "description", a.find)>>),
                     TextLine(<<"Coordinates: (", Get(r, "x", "?"), ", ", Get(r, "y", "?"), ")">>),
                     TextLine(<<"Confidence: ", Get(r, "confidence", "unknown")>>),
                     JsonLine(r) >>]
    ELSE [exc |-> "", out |-> <<TextLine(<<"Not found: ", a.find>>), JsonLine(r)>>]

-----------------------------------------------------------------------------
(* The environment of an invocation *)

\* Path.exists (line 180) with the test dropped
PathExistsAlways(fs) == TRUE

\* Path.exists (line 180)
PathExists(fs) == fs # "missing"

\* what anthropic.Anthropic() does (line 192): it returns a client (a
\* rejected key shows only at the request, and so may a missing one), or
\* raises: AuthenticationError for a missing key, as line 193 expects, or an
\* exception of another class (TypeError stands for every such class)
ConstructorOutcomes(cred) ==
    {"client", "TypeError"}
    \cup (IF cred = "missing" THEN {"AuthenticationError"} ELSE {})

\* free text the remote model gives for a description
DescribeReplies == {<<"A desktop.">>, <<SP, "A desktop.", NL>>}

\* the JSON texts of the replies: objects of at most MaxMembers members, the
\* one-token values, and texts json.loads rejects
ObjectText(ms) ==
    <<LBRACE>>
    \o [i \in 1..(2 * Len(ms) - 1) |-> IF i % 2 = 1 THEN ms[(i + 1) \div 2] ELSE COMMA]
    \o <<RBRACE>>

Bodies ==
    {ObjectText(ms) : ms \in TextsUpTo(MemberAtoms, MaxMembers) \ {<<>>}}
    \cup {<<LBRACE, RBRACE>>, <<EMPTYOBJ>>}
    \cup {<<a>> : a \in ScalarAtoms}
    \cup { <<>>, <<LANG>>, <<"\"found\":true">>,
           <<LBRACE, "\"found\":true">>,
           <<LBRACE, "\"found\":true", COMMA, RBRACE>>,
           <<LBRACE, "\"found\":true", "\"x\":7", RBRACE>>,
           <<LBRACE, RBRACE, LANG>> }

\* a body as the remote model may send it: bare, padded, fenced (with or
\* without language tag, closing fence or further text)
Wrappings(b) ==
    { b,
      <<SP>> \o b \o <<NL>>,
      <<FENCE, NL>> \o b \o <<NL, FENCE>>,
      <<FENCE, LANG, NL>> \o b \o <<NL, FENCE, NL>>,
      <<FENCE, LANG, NL>> \o b,
      <<FENCE>> \o b \o <<NL, FENCE>>,
      <<FENCE, NL>> \o b \o <<NL, FENCE, NL, LANG, NL, FENCE>> }

Replies == UNION {Wrappings(b) : b \in Bodies}

\* what client.messages.create and response.content[0].text do (lines
\* 80-104, 141-165): a reply, or the exception raised
CallOutcomes(cred, replies) ==
    IF cred = "rejected" THEN {[exc |-> "AuthenticationError", text |-> NoText]}
    ELSE IF cred = "missing" THEN {[exc |-> "TypeError", text |-> NoText]}
    ELSE {[exc |-> "", text |-> r] : r \in replies}
         \cup {[exc |-> "APIError", text |-> NoText],
               [exc |-> "IndexError", text |-> NoText]}

-----------------------------------------------------------------------------
(* main() *)

MainPaths == { <<"shot", DOT, "png">>, <<"shot", DOT, "JPG">>, <<"shot">> }

Init ==
    /\ pc = "start"
    /\ args \in [imageGiven : {TRUE}, image : MainPaths, find : {None, "", "Save"},
                 describe : BOOLEAN, json : BOOLEAN]
               \cup [imageGiven : {FALSE}, image : {<<>>}, find : {None, "Save"},
                     describe : BOOLEAN, json : {FALSE}]
    /\ fileState \in {"missing", "ok", "not_image", "unreadable"}
    /\ credential \in {"valid", "missing", "rejected"}
    /\ stdout = <<>>
    /\ stderr = <<>>
    /\ exitCode = NoExit
    /\ clientBuilt = FALSE
    /\ imageReads = 0
    /\ requests = <<>>
    /\ reply = NoText
    /\ response_text = NoText
    /\ result = NoResult
    /\ raised = ""

\* the invocation ends: out is printed and the process exits with code
Exit(out, code) ==
    /\ pc' = "done"
    /\ stdout' = stdout \o out
    /\ exitCode' = code

\* an exception reaches the except clauses of lines 225-236
Raise(e) ==
    /\ Exit(<<HandleException(e)>>, HandlerExit(e))
    /\ raised' = e

\* lines 172-177: --image is required; argparse prints the usage to standard
\* error and exits 2
ParseArgs ==
    /\ pc = "start"
    /\ IF args.imageGiven
       THEN /\ pc' = "check_image"
            /\ UNCHANGED <<stdout, stderr, exitCode>>
       ELSE /\ Exit(<<>>, 2)
            /\ stderr' = Append(stderr, "usage: the following arguments are required: --image")
    /\ UNCHANGED <<args, fileState, credential, clientBuilt, imageReads, requests,
                   reply, response_text, result, raised>>

\* lines 179-183
CheckImage ==
    /\ pc = "check_image"
    /\ IF PathExists(fileState)
       THEN /\ pc' = "check_mode"
            /\ UNCHANGED <<stdout, exitCode>>
       ELSE Exit(<<ImageNotFound(args.image)>>, 1)
    /\ UNCHANGED <<args, fileState, credential, stderr, clientBuilt, imageReads,
                   requests, reply, response_text, result, raised>>

\* lines 185-189
CheckMode ==
    /\ pc = "check_mode"
    /\ IF ~Truthy(args.find) /\ ~args.describe
       THEN Exit(<<UsageError>>, 1)
       ELSE /\ pc' = "make_client"
            /\ UNCHANGED <<stdout, exitCode>>
    /\ UNCHANGED <<args, fileState, credential, stderr, clientBuilt, imageReads,
                   requests, reply, response_text, result, raised>>

\* lines 191-196: only AuthenticationError is caught; any other exception of
\* the constructor leaves main() as a traceback on standard error, exit 1
MakeClient ==
    /\ pc = "make_client"
    /\ \E o \in ConstructorOutcomes(credential) :
        IF o = "client"
        THEN /\ pc' = "dispatch"
             /\ clientBuilt' = TRUE
             /\ UNCHANGED <<stdout, stderr, exitCode, raised>>
        ELSE IF o = "AuthenticationError"
        THEN /\ Exit(<<AuthErrorLine>>, 1)
             /\ raised' = o
             /\ UNCHANGED <<stderr, clientBuilt>>
        ELSE /\ Exit(<<>>, 1)
             /\ stderr' = Append(stderr, "Traceback (most recent call last): " \o o)
             /\ raised' = o
             /\ UNCHANGED clientBuilt
    /\ UNCHANGED <<args, fileState, credential, imageReads, requests, reply,
                   response_text, result>>

\* lines 199 and 214 with the branches in the other order
DispatchDescribeFirst(a) ==
    IF a.describe THEN "describe" ELSE IF Truthy(a.find) THEN "find" ELSE "none"

\* lines 199 and 214: if args.find ... elif args.describe
Dispatch(a) ==
    IF Truthy(a.find) THEN "find" ELSE IF a.describe THEN "describe" ELSE "none"

\* lines 199-200, 63-64: Image.open, then open(image_path, "rb")
FindLoad ==
    /\ pc = "dispatch"
    /\ Dispatch(args) = "find"
    /\ IF fileState = "ok"
       THEN /\ pc' = "find_send"
            /\ imageReads' = imageReads + 2
            /\ UNCHANGED <<stdout, exitCode, raised>>
       ELSE /\ Raise("OSError")
            /\ imageReads' = imageReads + (IF fileState = "not_image" THEN 1 ELSE 0)
    /\ UNCHANGED <<args, fileState, credential, stderr, clientBuilt, requests,
                   reply, response_text, result>>

\* lines 65-102: the request of find_element
FindSend ==
    /\ pc = "find_send"
    /\ pc' = "find_wait"
    /\ requests' = Append(requests, [op |-> "find", media_type |-> get_media_type(args.image),
                                     element |-> args.find])
    /\ UNCHANGED <<args, fileState, credential, stdout, stderr, exitCode, clientBuilt,
                   imageReads, reply, response_text, result, raised>>

\* lines 80-104: the call returns or raises
FindReceive ==
    /\ pc = "find_wait"
    /\ \E o \in CallOutcomes(credential, Replies) :
        IF o.exc = ""
        THEN /\ pc' = "find_decode"
             /\ reply' = o.text
             /\ UNCHANGED <<stdout, exitCode, raised>>
        ELSE /\ Raise(o.exc)
             /\ UNCHANGED reply
    /\ UNCHANGED <<args, fileState, credential, stderr, clientBuilt, imageReads,
                   requests, response_text, result>>

\* lines 104-128 and 201-212: decode the reply, return the result, print it
FindDecode ==
    /\ pc = "find_decode"
    /\ LET text == Normalise(reply)
           parsed == json_loads(text)
           ensured == EnsureElement(parsed.value, args.find)
           rendered == Render(ensured.value, args)
       IN  /\ response_text' = text
           /\ IF ~parsed.ok
              THEN Raise("JSONDecodeError") /\ UNCHANGED result
              ELSE IF ensured.exc # ""
              THEN Raise(ensured.exc) /\ UNCHANGED result
              ELSE /\ result' = ensured.value
                   /\ IF rendered.exc # ""
                      THEN Raise(rendered.exc)
                      ELSE Exit(rendered.out, 0) /\ UNCHANGED raised
    /\ UNCHANGED <<args, fileState, credential, stderr, clientBuilt, imageReads,
                   requests, reply>>

\* lines 214-215, 133: open(image_path, "rb")
DescribeLoad ==
    /\ pc = "dispatch"
    /\ Dispatch(args) = "describe"
    /\ IF fileState \in {"ok", "not_image"}
       THEN /\ pc' = "describe_send"
            /\ imageReads' = imageReads + 1
            /\ UNCHANGED <<stdout, exitCode, raised>>
       ELSE /\ Raise("OSError")
            /\ UNCHANGED imageReads
    /\ UNCHANGED <<args, fileState, credential, stderr, clientBuilt, requests,
                   reply, response_text, result>>

\* lines 134-163: the request of describe_screen
DescribeSend ==
    /\ pc = "describe_send"
    /\ pc' = "describe_wait"
    /\ requests' = Append(requests, [op |-> "describe", media_type |-> get_media_type(args.image),
                                     element |-> None])
    /\ UNCHANGED <<args, fileState, credential, stdout, stderr, exitCode, clientBuilt,
                   imageReads, reply, response_text, result, raised>>

\* lines 141-165 and 216-223: the call returns or raises; the trimmed text
\* is printed
DescribeReceive ==
    /\ pc = "describe_wait"
    /\ \E o \in CallOutcomes(credential, DescribeReplies) :
        IF o.exc = ""
        THEN /\ reply' = o.text
             /\ Exit(<<IF args.json THEN DescribeJson(Strip(o.text))
                                    ELSE DescribeText(Strip(o.text))>>, 0)
             /\ UNCHANGED raised
        ELSE /\ Raise(o.exc)
             /\ UNCHANGED reply
    /\ UNCHANGED <<args, fileState, credential, stderr, clientBuilt, imageReads,
                   requests, response_text, result>>

Next ==
    \/ ParseArgs
    \/ CheckImage
    \/ CheckMode
    \/ MakeClient
    \/ FindLoad
    \/ FindSend
    \/ FindReceive
    \/ FindDecode
    \/ DescribeLoad
    \/ DescribeSend
    \/ DescribeReceive

Spec == Init /\ [][Next]_vars

-----------------------------------------------------------------------------
(* The media-type specification: the part of main() from the dispatch to   *)
(* the request, on every file path of at most MaxPathLen atoms.            *)

PathAtoms == {SLASH, DOT, "shot", "png", "jpg", "jpeg", "gif", "webp", "JPG", "bmp"}

\* the paths that can name a file: the last component is neither empty nor
\* "." nor ".."
FilePaths ==
    {p \in TextsUpTo(PathAtoms, MaxPathLen) :
        LET cs == Split(p, SLASH)
        IN  cs[Len(cs)] \notin {<<>>, <<DOT>>, <<DOT, DOT>>}}

InitMedia ==
    /\ pc = "dispatch"
    /\ args \in [imageGiven : {TRUE}, image : FilePaths, find : {None, "Save"},
                 describe : {TRUE}, json : {FALSE}]
    /\ fileState = "ok"
    /\ credential = "valid"
    /\ stdout = <<>>
    /\ stderr = <<>>
    /\ exitCode = NoExit
    /\ clientBuilt = TRUE
    /\ imageReads = 0
    /\ requests = <<>>
    /\ reply = NoText
    /\ response_text = NoText
    /\ result = NoResult
    /\ raised = ""

NextMedia ==
    \/ FindLoad
    \/ FindSend
    \/ DescribeLoad
    \/ DescribeSend

SpecMedia == InitMedia /\ [][NextMedia]_vars

-----------------------------------------------------------------------------
(* The fence-stripping specification: the normalisation applied to every   *)
(* reply of at most MaxReplyLen atoms.                                     *)

FenceAtoms == {FENCE, NL, SP, LANG, EMPTYOBJ}

InitFence ==
    /\ pc = "fence_in"
    /\ reply \in TextsUpTo(FenceAtoms, MaxReplyLen)
    /\ response_text = NoText
    /\ args = NoArgs
    /\ fileState = "ok"
    /\ credential = "valid"
    /\ raised = ""
    /\ stdout = <<>>
    /\ stderr = <<>>
    /\ exitCode = NoExit
    /\ clientBuilt = TRUE
    /\ imageReads = 1
    /\ requests = <<>>
    /\ result = NoResult

\* lines 104-120 applied to the reply
FenceNormalise ==
    /\ pc = "fence_in"
    /\ pc' = "fence_out"
    /\ response_text' = Normalise(reply)
    /\ UNCHANGED <<args, fileState, stdout, stderr, exitCode, clientBuilt,
                   imageReads, requests, reply, result, credential, raised>>

NextFence == FenceNormalise

SpecFence == InitFence /\ [][NextFence]_vars

-----------------------------------------------------------------------------
(* Claims about the reply normalisation, checked under SpecFence *)

\* the trimmed reply is wrapped in fences: its first line opens with a fence
\* marker and its last line, a later one, is a fence marker
Wrapped(t) ==
    LET lines == Split(t, NL)
    IN  /\ Len(lines) >= 2
        /\ StartsWithFence(lines[1])
        /\ lines[Len(lines)] = <<FENCE>>

DropLang(t) == IF t # <<>> /\ Head(t) = LANG THEN Tail(t) ELSE t

\* the text between the first and the last fence marker of a wrapped reply:
\* what the opening line carries after the marker and its language tag, then
\* every line before the closing marker
BetweenFences(t) ==
    LET lines == Split(t, NL)
        rest == DropLang(Tail(lines[1]))
        middle == SubSeq(lines, 2, Len(lines) - 1)
    IN  IF rest = <<>> THEN Join(middle, NL) ELSE Join(<<rest>> \o middle, NL)

\* C1: for every reply wrapped in fences, with or without a language tag,
\* the text handed to the JSON parser is exactly the text between the first
\* and the last fence marker of the reply.
C1_BetweenFirstAndLastFence ==
    (pc = "fence_out" /\ Wrapped(Strip(reply)))
        => response_text = BetweenFences(Strip(reply))

\* C2 as stated: normalising the normalised text changes nothing, and a
\* reply with no leading fence is only trimmed.
C2_Idempotent ==
    pc = "fence_out" =>
        /\ Normalise(response_text) = response_text
        /\ (~StartsWithFence(Strip(reply)) => response_text = Strip(reply))

\* C2 as amended: normalising the normalised text changes nothing whenever
\* the normalised text has no leading or trailing whitespace (as is always so
\* for a reply with no leading fence), and a reply with no leading fence is
\* only trimmed.
C2_IdempotentOnTrimmedOutput ==
    pc = "fence_out" =>
        /\ (Strip(response_text) = response_text
                => Normalise(response_text) = response_text)
        /\ (~StartsWithFence(Strip(reply)) => response_text = Strip(reply))

\* C2 witness: a fenced reply was normalised to a non-empty text with no
\* surrounding whitespace, and a second normalisation leaves it alone.
C2_Witness ==
    /\ pc = "fence_out"
    /\ StartsWithFence(Strip(reply))
    /\ response_text # <<>>
    /\ Strip(response_text) = response_text
    /\ Normalise(response_text) = response_text

-----------------------------------------------------------------------------
(* Claims about main(), checked under Spec *)

Done == pc = "done"

\* a find request was sent and a reply to it received
FindReplied ==
    /\ Len(requests) >= 1
    /\ requests[1].op = "find"
    /\ reply # NoText

\* the remote call completed and its result, and nothing else, was printed
ResultPrinted ==
    /\ reply # NoText
    /\ stdout # <<>>
    /\ \A i \in 1..Len(stdout) : stdout[i].kind \in ResultKinds

\* no client was built, the image was not opened, nothing was sent
NoWork == ~clientBuilt /\ imageReads = 0 /\ requests = <<>>

\* C3: when find_element returns a result for description d and a reply that
\* parses to an object o, the result's element is o's element if o has one
\* and d otherwise, and the result has every other field of o, unchanged,
\* and no further field.
C3_OnlyElementInjected ==
    (Done /\ result.tag = "dict") =>
        LET o == json_loads(Normalise(reply)).value.obj
        IN  /\ DOMAIN result.obj = DOMAIN o \cup {"element"}
            /\ result.obj["element"] =
                   (IF "element" \in DOMAIN o THEN o["element"] ELSE Quote(args.find))
            /\ \A k \in DOMAIN o : k # "element" => result.obj[k] = o[k]

\* C3 witness: an object with x and without element or found came back, and
\* the result printed has element and x and still no found.
C3_Witness ==
    /\ Done
    /\ exitCode = 0
    /\ result.tag = "dict"
    /\ DOMAIN json_loads(Normalise(reply)).value.obj = {"x"}
    /\ DOMAIN result.obj = {"x", "element"}
    /\ stdout[Len(stdout)].val = result

\* C4: in find mode every reply that is not valid JSON after fence-stripping
\* ends the invocation with exit code 1 and the one error line "Failed to
\* parse vision response as JSON: ...", never with a printed result.
C4_InvalidJsonIsMalformedResponse ==
    (Done /\ FindReplied /\ ~IsValidJSON(Normalise(reply))) =>
        /\ exitCode = 1
        /\ Len(stdout) = 1
        /\ stdout[1].kind = "error"
        /\ stdout[1].msg[1] = "Failed to parse vision response as JSON: "

\* C5: the exit code is 0 exactly when the remote call completed and its
\* result was printed; it is 1 when the image does not exist, when no mode
\* was given, when the credential is missing or rejected, when the remote
\* call raised and when the find reply did not parse; these paths give no
\* other code.
C5_ExitCodes ==
    Done =>
        /\ exitCode = 0 <=> ResultPrinted
        /\ args.imageGiven =>
            /\ exitCode \in {0, 1}
            /\ fileState = "missing" => exitCode = 1
            /\ (~Truthy(args.find) /\ ~args.describe) => exitCode = 1
            /\ credential # "valid" => exitCode = 1
            /\ (Len(requests) = 1 /\ reply = NoText) => exitCode = 1
            /\ (FindReplied /\ ~json_loads(Normalise(reply)).ok) => exitCode = 1

\* C5 witness: a find call completed with a result that lacks found; the
\* result was printed as not found and the exit code is 0.
C5_Witness ==
    /\ Done
    /\ exitCode = 0
    /\ result.tag = "dict"
    /\ "found" \notin DOMAIN result.obj
    /\ ~args.json
    /\ stdout[1].msg[1] = "Not found: "

\* C6: every failure of an invocation whose arguments parsed prints exactly
\* one error object, on one line, to standard output, writes no traceback
\* and exits non-zero.
C6_EveryFailureIsOneErrorLine ==
    (Done /\ args.imageGiven /\ ~ResultPrinted) =>
        /\ exitCode # 0
        /\ stderr = <<>>
        /\ Len(stdout) = 1
        /\ stdout[1].kind = "error"

\* C7: whenever a missing or rejected credential is detected, at the client
\* construction or during the remote call, the invocation prints the
\* AuthError payload and exits 1.
C7_AuthErrorIsDistinct ==
    (/\ Done
     /\ credential # "valid"
     /\ raised = "AuthenticationError" \/ Len(requests) = 1) =>
        /\ exitCode = 1
        /\ Len(stdout) = 1
        /\ stdout[1].kind = "error"
        /\ stdout[1].flag = "success"
        /\ stdout[1].msg = <<"ANTHROPIC_API_KEY not set or invalid">>

\* C8: when the image does not exist the invocation prints exactly
\* {"success": false, "error": "Image file not found: <path>"} and exits 1
\* whatever the mode flags; when it exists and no mode is given it prints the
\* usage error and exits 1; in both cases, at every point of the run, no
\* client is built, the image is not read and nothing is sent.
C8_ValidationFirst ==
    (args.imageGiven /\ (fileState = "missing" \/ (~Truthy(args.find) /\ ~args.describe))) =>
        /\ NoWork
        /\ stderr = <<>>
        /\ Done =>
            /\ exitCode = 1
            /\ Len(stdout) = 1
            /\ stdout[1].kind = "error"
            /\ stdout[1].flag = "success"
            /\ stdout[1].msg =
                   (IF fileState = "missing"
                    THEN <<"Image file not found: ">> \o args.image
                    ELSE <<"Specify --find 'element' or --describe">>)

\* C8 witness: the image is missing, both mode flags were given, and the run
\* ended with the image error.
C8_Witness ==
    /\ Done
    /\ fileState = "missing"
    /\ Truthy(args.find)
    /\ args.describe
    /\ exitCode = 1
    /\ stdout = <<ImageNotFound(args.image)>>

\* C10: an invocation makes at most one remote call; when the call raised or
\* the reply did not parse the invocation has ended; and when --find is given
\* non-empty the one request is the find request, also with --describe.
C10_AtMostOneCall ==
    /\ Len(requests) <= 1
    /\ raised # "" => Done
    /\ (requests # <<>> /\ Truthy(args.find)) => requests[1].op = "find"
    /\ (requests # <<>> /\ ~Truthy(args.find)) => requests[1].op = "describe"

\* C10 witness: both mode flags were given, the one request is the find
\* request, its reply did not parse, and the invocation has ended.
C10_Witness ==
    /\ Done
    /\ Truthy(args.find)
    /\ args.describe
    /\ Len(requests) = 1
    /\ requests[1].op = "find"
    /\ raised = "JSONDecodeError"

-----------------------------------------------------------------------------
(* The claim about get_media_type, checked under SpecMedia *)

MediaTypes == {"image/png", "image/jpeg", "image/gif", "image/webp"}

\* the final extension of a path: its last atom, when a dot precedes it and
\* the dot does not open the file name
FinalExtension(path) ==
    LET n == Len(path)
    IN  IF n >= 3 /\ path[n - 1] = DOT /\ path[n - 2] # SLASH /\ path[n] \notin {DOT, SLASH}
        THEN path[n]
        ELSE ""

\* C9: the media type of a request is decided by the final extension of the
\* image path alone (letter case aside): jpg and jpeg give image/jpeg, gif
\* image/gif, webp image/webp, and png, any other extension and none give
\* image/png; find and describe requests carry that same value.
C9_MediaTypeByExtension ==
    \A i \in 1..Len(requests) :
        LET e == FinalExtension(args.image)
        IN  /\ requests[i].media_type \in MediaTypes
            /\ requests[i].media_type = get_media_type(args.image)
            /\ e \in {"jpg", "JPG", "jpeg"} => requests[i].media_type = "image/jpeg"
            /\ e = "gif" => requests[i].media_type = "image/gif"
            /\ e = "webp" => requests[i].media_type = "image/webp"
            /\ e \notin {"jpg", "JPG", "jpeg", "gif", "webp"}
                   => requests[i].media_type = "image/png"

\* C9 witness: a describe request went out for a path that ends in .JPG,
\* with image/jpeg.
C9_Witness ==
    /\ Len(requests) = 1
    /\ requests[1].op = "describe"
    /\ FinalExtension(args.image) = "JPG"
    /\ requests[1].media_type = "image/jpeg"

====
